---- MODULE Spec2Model ----
(***************************************************************************)
(* Model of src/diplom_work_oop.py: backup of a captioned cat image from   *)
(* cataas.com to Yandex.Disk.                                              *)
(*                                                                         *)
(* Strings whose characters matter (captions, file names, the href of the  *)
(* upload response) are sequences of one-character strings.                *)
(***************************************************************************)
EXTENDS Integers, Sequences, FiniteSets, TLC

VARIABLES
    \* ---- caller / control ----
    pc,             \* position of control inside the operation in progress
    op,             \* operation in progress or last finished, with arguments
    result,         \* return value of the operation, meaningful when pc = "done"
    storageMode,    \* behaviour of the storage API during the current call
    \* ---- BackupManager ----
    uploaded_files, \* BackupManager.uploaded_files
    filesAtEntry,   \* uploaded_files at entry of the current run_backup
    jsonWrites,     \* writes of backup_info_<group>.json during the current run
    fsWritable,     \* whether open(json_filename, 'w') would succeed
    headResp,       \* response to the HEAD probe of the image source
    storageReqs,    \* requests issued to the storage API during the current call
    \* ---- remote storage ----
    remoteFolders,  \* folders existing on the disk
    \* ---- create_folder ----
    probeResp,      \* response to the existence probe (GET)
    putResp,        \* response to the create request (PUT)
    prevCall,       \* summary of the previously finished call
    \* ---- upload_by_url / _check_upload_status ----
    postResp,       \* response to the upload request (POST)
    href,           \* 'href' of the upload response (after .get('href', ''))
    operation_id,   \* operation_id computed by upload_by_url
    iter,           \* iterations of the poll loop started so far
    last_progress,  \* local last_progress of the poll
    pbar,           \* tqdm counter n: cumulative progress reported
    lastStatus,     \* outcome of the most recent status request
    sleeps,         \* time.sleep(1) calls of the current poll
    exc,            \* exception raised inside the try block of run_backup
    mainCtx,        \* inputs read by main and whether it built a BackupManager
    \* ---- _save_to_json / _get_remote_file_size ----
    jsonFile,       \* content of backup_info_<group>.json (<<>> when absent)
    firstWritten,   \* for every record, the entry first written for it
    clock,          \* wall clock in seconds, as read by time.strftime
    sizeResp,       \* response to the HEAD request of the size probe
    size_bytes,     \* value returned by _get_remote_file_size
    \* ---- _sanitize_filename ----
    text,           \* caption under sanitisation
    safe_filename,  \* derived file name (with extension)
    spc             \* position of the sanitisation harness

vars == <<pc, op, result, storageMode, uploaded_files, filesAtEntry, jsonWrites,
          fsWritable, headResp, storageReqs, remoteFolders, probeResp, putResp,
          prevCall, postResp, href, operation_id, iter, last_progress, pbar,
          lastStatus, sleeps, exc, mainCtx, jsonFile, firstWritten, clock,
          sizeResp, size_bytes, text, safe_filename, spc>>

mainVars == <<pc, op, result, storageMode, uploaded_files, filesAtEntry, jsonWrites,
              fsWritable, headResp, storageReqs, remoteFolders, probeResp, putResp,
              prevCall, postResp, href, operation_id, iter, last_progress, pbar,
              lastStatus, sleeps, exc, mainCtx>>

sanVars == <<text, safe_filename, spc>>

saveVars == <<jsonFile, firstWritten, clock, sizeResp, size_bytes>>

Min(a, b) == IF a < b THEN a ELSE b

Max(S) == CHOOSE x \in S : \A y \in S : y <= x

Repeat(c, n) == [i \in 1..n |-> c]

(***************************************************************************)
(* BackupManager._sanitize_filename                                        *)
(***************************************************************************)

\* variant: the space is missing from the list
invalid_chars_NoSpace == <<"<", ">", ":", "\"", "/", "\\", "|", "?", "*">>

\* invalid_chars = '<>:"/\\|?* '
invalid_chars == <<"<", ">", ":", "\"", "/", "\\", "|", "?", "*", " ">>

\* str.replace(char, '_') for a one-character char
Replace(t, char) == [i \in 1..Len(t) |-> IF t[i] = char THEN "_" ELSE t[i]]

\* for char in invalid_chars: text = text.replace(char, '_')   (first k chars done)
RECURSIVE ReplaceLoop(_, _)
ReplaceLoop(t, k) ==
    IF k = 0 THEN t ELSE Replace(ReplaceLoop(t, k - 1), invalid_chars[k])

\* text[:100]
NameLimit == 100

\* variant: text[:99]
Truncate_Short(t) == SubSeq(t, 1, Min(Len(t), NameLimit - 1))

\* variant: the name is not truncated
Truncate_KeepsAll(t) == t

Truncate(t) == SubSeq(t, 1, Min(Len(t), NameLimit))

_sanitize_filename(t) == Truncate(ReplaceLoop(t, Len(invalid_chars)))

\* ".jpg"
Extension == <<".", "j", "p", "g">>

\* safe_filename = self._sanitize_filename(text) + ".jpg"
SafeFilename(t) == _sanitize_filename(t) \o Extension

(***************************************************************************)
(* HTTP as seen through the requests library.  A call either raises a      *)
(* transport-level RequestException or returns a response with a status    *)
(* code and a body.  response.json() on a body that is not JSON raises     *)
(* requests.exceptions.JSONDecodeError, a RequestException.                *)
(***************************************************************************)

ConnError == [kind |-> "exc", code |-> 0, json |-> FALSE]

Http(c, j) == [kind |-> "http", code |-> c, json |-> j]

\* variant: only server errors raise
RaisesForStatus_Only5xx(r) == r.code >= 500 /\ r.code < 600

\* response.raise_for_status(): HTTPError for 4xx and 5xx
RaisesForStatus(r) == r.code >= 400 /\ r.code < 600

\* names bound at module level when run_backup executes (lines 15-375)
ModuleNames == {"FileInfo", "YandexDiskClient", "CataasClient", "BackupManager", "main"}

\* folder names passed to create_folder; "SPD-142" is main's NETOLOGY_GROUP_NAME
Paths == {"SPD-142", "tmp"}

\* captions passed to run_backup
Captions == {"cat", "hi you"}

NoResp == [kind |-> "none", code |-> 0, json |-> FALSE]

NoReqs == [get |-> 0, put |-> 0, post |-> 0, poll |-> 0]

NoCall == [name |-> "none", arg |-> "", result |-> FALSE, puts |-> 0, mode |-> "none"]

StorageModes == {"faithful", "arbitrary"}

(***************************************************************************)
(* The remotes.  In mode "faithful" the storage API answers as documented  *)
(* and remembers the folders it created; in mode "arbitrary" any response  *)
(* (including a transport failure) may come back.                          *)
(***************************************************************************)

HeadResponses == {ConnError, Http(200, FALSE), Http(404, FALSE), Http(500, FALSE)}

ProbeResponses(path) ==
    IF storageMode = "faithful"
    THEN {IF path \in remoteFolders THEN Http(200, TRUE) ELSE Http(404, TRUE)}
    ELSE {ConnError, Http(200, TRUE), Http(404, TRUE), Http(401, TRUE), Http(502, FALSE)}

PutResponses(path) ==
    IF storageMode = "faithful"
    THEN {IF path \in remoteFolders THEN Http(409, TRUE) ELSE Http(201, TRUE)}
    ELSE {ConnError, Http(201, TRUE), Http(409, TRUE), Http(200, TRUE),
          Http(403, TRUE), Http(502, FALSE)}

(***************************************************************************)
(* Bookkeeping shared by the operations                                    *)
(***************************************************************************)

Idle == pc \in {"idle", "done"}

\* summary of the call that has just finished
Summary == IF pc = "idle" THEN NoCall
           ELSE [name |-> op.name, arg |-> op.arg, result |-> result,
                 puts |-> storageReqs.put, mode |-> storageMode]

\* main has read nothing
NoMain == [rawText |-> <<>>, rawToken |-> <<>>, text |-> <<>>, token |-> <<>>,
           asked |-> 0, manager |-> FALSE]

\* a call starts: the per-call history is reset; prevCall is kept for the
\* calls of create_folder, w is whether the local file system accepts writes,
\* ctx is what main has read when the call is main's
BeginCall(name, arg, mode, w, first, ctx) ==
    /\ Idle
    /\ exc' = "none"
    /\ mainCtx' = ctx
    /\ pc' = first
    /\ op' = [name |-> name, arg |-> arg]
    /\ storageMode' = mode
    /\ prevCall' = IF name = "create_folder" THEN Summary ELSE NoCall
    /\ fsWritable' = w
    /\ result' = FALSE
    /\ storageReqs' = NoReqs
    /\ headResp' = NoResp
    /\ probeResp' = NoResp
    /\ putResp' = NoResp
    /\ postResp' = NoResp
    /\ href' = <<>>
    /\ operation_id' = <<>>
    /\ iter' = 0
    /\ last_progress' = 0
    /\ pbar' = 0
    /\ lastStatus' = "none"
    /\ sleeps' = 0
    /\ jsonWrites' = 0
    /\ filesAtEntry' = uploaded_files

Begin(name, arg, mode, w, first) == BeginCall(name, arg, mode, w, first, NoMain)

Return(v) == pc' = "done" /\ result' = v

(***************************************************************************)
(* YandexDiskClient.create_folder                                          *)
(***************************************************************************)

\* variant: the probe is compared with the wrong status
FolderExists_WrongCode(r) == r.code = 201

\* check_response.status_code == 200
FolderExists(r) == r.code = 200

\* variant: 409 is not accepted
FolderCreated_No409(r) == r.code \in {201}

\* response.status_code in [201, 409]
FolderCreated(r) == r.code \in {201, 409}

CallCreateFolder ==
    \E path \in Paths, mode \in StorageModes :
        /\ Begin("create_folder", path, mode, TRUE, "cf_probe")
        /\ UNCHANGED <<uploaded_files, remoteFolders, text, safe_filename, spc, saveVars>>

\* lines 56-64 and the handler of lines 76-78
CfProbe ==
    /\ pc = "cf_probe"
    /\ \E r \in ProbeResponses(op.arg) :
        /\ probeResp' = r
        /\ storageReqs' = [storageReqs EXCEPT !.get = @ + 1]
        /\ IF r.kind = "exc" THEN Return(FALSE)
           ELSE IF FolderExists(r) THEN Return(TRUE)
           ELSE pc' = "cf_put" /\ result' = result
    /\ UNCHANGED <<op, storageMode, uploaded_files, filesAtEntry, jsonWrites,
                   fsWritable, headResp, remoteFolders, putResp, prevCall, postResp, href,
                   operation_id, iter, last_progress, pbar, lastStatus, sleeps,
                   text, safe_filename, spc,
                   exc, mainCtx, saveVars>>

\* lines 67-74 and the handler of lines 76-78; on the error branch
\* response.json() either yields the body or raises JSONDecodeError, and
\* both ways the call returns False
CfPut ==
    /\ pc = "cf_put"
    /\ \E r \in PutResponses(op.arg) :
        /\ putResp' = r
        /\ storageReqs' = [storageReqs EXCEPT !.put = @ + 1]
        /\ remoteFolders' = IF r.kind = "http" /\ r.code = 201
                            THEN remoteFolders \cup {op.arg} ELSE remoteFolders
        /\ IF r.kind = "exc" THEN Return(FALSE)
           ELSE IF FolderCreated(r) THEN Return(TRUE)
           ELSE Return(FALSE)
    /\ UNCHANGED <<op, storageMode, uploaded_files, filesAtEntry, jsonWrites,
                   fsWritable, headResp, probeResp, prevCall, postResp, href,
                   operation_id, iter, last_progress, pbar, lastStatus, sleeps,
                   text, safe_filename, spc,
                   exc, mainCtx, saveVars>>

(***************************************************************************)
(* YandexDiskClient.upload_by_url                                          *)
(***************************************************************************)

\* 'operation_id='
Marker == <<"o", "p", "e", "r", "a", "t", "i", "o", "n", "_", "i", "d", "=">>

\* positions at which m occurs in s
Occurrences(s, m) ==
    {i \in 1..(Len(s) - Len(m) + 1) : SubSeq(s, i, i + Len(m) - 1) = m}

\* s.split(m)[-1]: what follows the last occurrence of m, the whole of s when
\* m does not occur (no two occurrences of Marker can overlap)
SplitLast(s, m) ==
    IF Occurrences(s, m) = {} THEN s
    ELSE SubSeq(s, Max(Occurrences(s, m)) + Len(m), Len(s))

\* response.json().get('href', '').split('operation_id=')[-1]
OperationId(h) == SplitLast(h, Marker)

\* if operation_id:
HasOperation(id) == id # <<>>

\* values of 'href' in the upload response; <<>> is also the default of an
\* absent 'href'
Hrefs ==
    {pre \o mid \o suf : pre \in {<<>>, <<"u", "?">>},
                         mid \in {<<>>, Marker, Marker \o <<"1", "&">> \o Marker},
                         suf \in {<<>>, <<"7">>}}

UploadResp(k, c, j, h) == [kind |-> k, code |-> c, json |-> j, href |-> h]

PostResponses ==
    IF storageMode = "faithful"
    THEN {UploadResp("http", 202, TRUE, h) : h \in {<<>>, <<"u", "?">> \o Marker \o <<"7">>}}
    ELSE {UploadResp("exc", 0, FALSE, <<>>), UploadResp("http", 401, TRUE, <<>>),
          UploadResp("http", 507, TRUE, <<>>), UploadResp("http", 200, FALSE, <<>>)}
         \cup {UploadResp("http", 202, TRUE, h) : h \in Hrefs}

\* save_path passed to upload_by_url
SavePath == "SPD-142/cat.jpg"

CallUploadByUrl ==
    \E mode \in StorageModes :
        /\ Begin("upload_by_url", SavePath, mode, TRUE, "up_post")
        /\ UNCHANGED <<uploaded_files, remoteFolders, text, safe_filename, spc, saveVars>>

\* lines 102-112 and the handler of lines 114-116
UpPost ==
    /\ pc = "up_post"
    /\ \E r \in PostResponses :
        /\ postResp' = [kind |-> r.kind, code |-> r.code, json |-> r.json]
        /\ storageReqs' = [storageReqs EXCEPT !.post = @ + 1]
        /\ IF r.kind = "exc" \/ RaisesForStatus(r) \/ ~r.json
           THEN /\ Return(FALSE)
                /\ UNCHANGED <<href, operation_id>>
           ELSE /\ href' = r.href
                /\ operation_id' = OperationId(r.href)
                /\ IF HasOperation(OperationId(r.href))
                   THEN pc' = "poll" /\ result' = result
                   ELSE Return(TRUE)
    /\ UNCHANGED <<op, storageMode, uploaded_files, filesAtEntry, jsonWrites,
                   fsWritable, headResp, remoteFolders, probeResp, putResp,
                   prevCall, iter, last_progress, pbar, lastStatus, sleeps,
                   text, safe_filename, spc,
                   exc, mainCtx, saveVars>>

(***************************************************************************)
(* YandexDiskClient._check_upload_status                                   *)
(***************************************************************************)

\* variant: one iteration too many
PollAttempts_OneMore == 30 + 1

\* for _ in range(30)
PollAttempts == 30

\* polls within which the faithful remote completes an operation
CompletionPolls == 3

\* values of 'progress'; 0 is also the default of an absent 'progress'
ProgressValues == {0, 40, 100}

StatusResp(k, c, j, st, pr) ==
    [kind |-> k, code |-> c, json |-> j, status |-> st, progress |-> pr]

\* "pending" and "absent" stand for every status the loop does not recognise
PollResponses ==
    IF storageMode = "faithful"
    THEN {StatusResp("http", 200, TRUE, "success", p) : p \in ProgressValues}
         \cup (IF iter + 1 >= CompletionPolls THEN {}
               ELSE {StatusResp("http", 200, TRUE, "in-progress", p) : p \in ProgressValues})
    ELSE {StatusResp("exc", 0, FALSE, "absent", 0),
          StatusResp("http", 404, TRUE, "absent", 0),
          StatusResp("http", 200, FALSE, "absent", 0),
          StatusResp("http", 200, TRUE, "failed", 0),
          StatusResp("http", 200, TRUE, "pending", 0),
          StatusResp("http", 200, TRUE, "absent", 0)}
         \cup {StatusResp("http", 200, TRUE, st, p) :
                   st \in {"success", "in-progress"}, p \in ProgressValues}

\* what the loop body sees of a response: the exception taken to the handler
\* of lines 157-159, or data.get('status')
Seen(r) ==
    IF r.kind = "exc" THEN "exc"
    ELSE IF RaisesForStatus(r) THEN "http_error"
    ELSE IF ~r.json THEN "bad_json"
    ELSE r.status

\* variant: success is taken only at full progress
IsSuccess_NeedsFull(r) == Seen(r) = "success" /\ r.progress = 100

\* if status == 'success'
IsSuccess(r) == Seen(r) = "success"

\* variant: 'failed' is not recognised
IsFailed_Ignored(r) == FALSE

\* elif status == 'failed'
IsFailed(r) == Seen(r) = "failed"

\* variant: the absolute value is reported instead of the difference
ProgressDelta_Absolute(progress, last) == progress

\* pbar.update(progress - last_progress), pbar.update(100 - last_progress)
ProgressDelta(progress, last) == progress - last

\* one iteration of the loop of lines 135-159; the iteration that exhausts
\* range(30) falls through to the return False of line 162
PollStep ==
    /\ pc = "poll"
    /\ iter < PollAttempts
    /\ \E r \in PollResponses :
        /\ iter' = iter + 1
        /\ storageReqs' = [storageReqs EXCEPT !.poll = @ + 1]
        /\ lastStatus' = Seen(r)
        /\ IF Seen(r) \in {"exc", "http_error", "bad_json"}
           THEN /\ Return(FALSE)
                /\ UNCHANGED <<pbar, last_progress, sleeps>>
           ELSE IF IsSuccess(r)
           THEN /\ pbar' = pbar + ProgressDelta(100, last_progress)
                /\ Return(TRUE)
                /\ UNCHANGED <<last_progress, sleeps>>
           ELSE IF IsFailed(r)
           THEN /\ Return(FALSE)
                /\ UNCHANGED <<pbar, last_progress, sleeps>>
           ELSE /\ IF Seen(r) = "in-progress"
                   THEN /\ pbar' = pbar + ProgressDelta(r.progress, last_progress)
                        /\ last_progress' = r.progress
                   ELSE UNCHANGED <<pbar, last_progress>>
                /\ sleeps' = sleeps + 1
                /\ IF iter + 1 < PollAttempts
                   THEN pc' = "poll" /\ result' = result
                   ELSE Return(FALSE)
    /\ UNCHANGED <<op, storageMode, uploaded_files, filesAtEntry, jsonWrites,
                   fsWritable, headResp, remoteFolders, probeResp, putResp,
                   prevCall, postResp, href, operation_id,
                   text, safe_filename, spc,
                   exc, mainCtx, saveVars>>

(***************************************************************************)
(* CataasClient.get_cat_image_url                                          *)
(***************************************************************************)

None == <<>>

\* f"{self.BASE_URL}/cat/says/{requests.utils.quote(text)}"
ImageUrl(t) == <<"https://cataas.com/cat/says/", t>>

\* lines 184-200: the url on status 200, None on any other status and on a
\* RequestException
get_cat_image_url(t, r) ==
    IF r.kind = "exc" THEN None
    ELSE IF r.code = 200 THEN ImageUrl(t)
    ELSE None

(***************************************************************************)
(* BackupManager.run_backup                                                *)
(***************************************************************************)

\* evaluating a global name that the module does not bind raises NameError
RaisesNameError(name) == name \notin ModuleNames

\* lines 261-263: if not image_url: return False
ResolveFailed(image_url) == image_url = None

\* variant: the early return reports success
ResolveFailedResult_True == TRUE

\* line 263: return False
ResolveFailedResult == FALSE

\* variant: the handler reports success
ExceptionResult_True == TRUE

\* lines 305-307: except Exception: log and return False
ExceptionResult == FALSE

\* variant: the handler catches the network errors only
Caught_OnlyRequests(e) == e \in {"RequestException"}

\* line 305: except Exception catches every subclass of Exception
Caught(e) == e \in {"NameError", "RequestException", "OSError", "ValueError"}

CallRunBackup ==
    \E t \in Captions, mode \in StorageModes, w \in BOOLEAN :
        /\ Begin("run_backup", t, mode, w, "rb_resolve")
        /\ UNCHANGED <<uploaded_files, remoteFolders, text, safe_filename, spc, saveVars>>

\* stage 1, lines 257-263
RbResolve ==
    /\ pc = "rb_resolve"
    /\ \E r \in HeadResponses :
        /\ headResp' = r
        /\ IF ResolveFailed(get_cat_image_url(op.arg, r))
           THEN Return(ResolveFailedResult)
           ELSE pc' = "rb_stage2" /\ result' = result
    /\ UNCHANGED <<op, storageMode, uploaded_files, filesAtEntry, jsonWrites,
                   fsWritable, storageReqs, remoteFolders, probeResp, putResp,
                   prevCall, postResp, href, operation_id, iter, last_progress, pbar,
                   lastStatus, sleeps, text, safe_filename, spc,
                   exc, mainCtx, saveVars>>

\* stage 2, line 267: yandex_client = YandexDiskUploader(yandex_token).  The
\* module binds no such name (the class is YandexDiskClient), so the lookup
\* raises NameError, which the handler of lines 305-307 turns into the return
\* value.  Lines 270-303 are never reached.
RbStage2 ==
    /\ pc = "rb_stage2"
    /\ RaisesNameError("YandexDiskUploader")
    /\ exc' = "NameError"
    /\ IF Caught("NameError")
       THEN Return(ExceptionResult)
       ELSE pc' = "propagated" /\ result' = result
    /\ UNCHANGED <<op, storageMode, uploaded_files, filesAtEntry, jsonWrites,
                   fsWritable, headResp, storageReqs, remoteFolders, probeResp,
                   putResp, prevCall, postResp, href, operation_id, iter,
                   last_progress, pbar, lastStatus, sleeps, text, safe_filename, spc,
                   mainCtx, saveVars>>

(***************************************************************************)
(* main                                                                    *)
(***************************************************************************)

MaxInputLen == 2

Whitespace == {" ", "\t"}

\* what the user may type at a prompt
RawInputs == UNION {[1..n -> {" ", "\t", "a"}] : n \in 0..MaxInputLen}

RECURSIVE LStrip(_)
LStrip(s) == IF s # <<>> /\ Head(s) \in Whitespace THEN LStrip(Tail(s)) ELSE s

RECURSIVE RStrip(_)
RStrip(s) ==
    IF s # <<>> /\ s[Len(s)] \in Whitespace THEN RStrip(SubSeq(s, 1, Len(s) - 1)) ELSE s

\* variant: the input is used as typed
Strip_Nothing(s) == s

\* str.strip()
Strip(s) == RStrip(LStrip(s))

\* lines 382-386: the caption is read; an empty one ends main
MainText ==
    \E raw \in RawInputs, mode \in StorageModes :
        /\ BeginCall("main", "", mode, TRUE,
                     IF Strip(raw) = <<>> THEN "done" ELSE "main_token",
                     [NoMain EXCEPT !.rawText = raw, !.text = Strip(raw), !.asked = 1])
        /\ UNCHANGED <<uploaded_files, remoteFolders, text, safe_filename, spc, saveVars>>

\* lines 388-405: the token is read; an empty one ends main, otherwise a
\* BackupManager is built and run_backup(text, yandex_token) is called
MainToken ==
    /\ pc = "main_token"
    /\ \E raw \in RawInputs :
        /\ mainCtx' = [mainCtx EXCEPT !.rawToken = raw, !.token = Strip(raw),
                                      !.asked = 2, !.manager = (Strip(raw) # <<>>)]
        /\ IF Strip(raw) = <<>>
           THEN /\ pc' = "done"
                /\ UNCHANGED <<op, uploaded_files, filesAtEntry>>
           ELSE /\ pc' = "rb_resolve"
                /\ op' = [name |-> "run_backup", arg |-> mainCtx.text]
                /\ uploaded_files' = <<>>
                /\ filesAtEntry' = <<>>
    /\ UNCHANGED <<result, storageMode, jsonWrites, fsWritable, headResp, storageReqs,
                   remoteFolders, probeResp, putResp, prevCall, postResp, href,
                   operation_id, iter, last_progress, pbar, lastStatus, sleeps, exc,
                   text, safe_filename, spc, saveVars>>

(***************************************************************************)
(* Specification of the client and the manager                             *)
(***************************************************************************)

InitMain ==
    /\ pc = "idle"
    /\ op = [name |-> "none", arg |-> ""]
    /\ result = FALSE
    /\ storageMode = "faithful"
    /\ uploaded_files = <<>>
    /\ filesAtEntry = <<>>
    /\ jsonWrites = 0
    /\ fsWritable = TRUE
    /\ headResp = NoResp
    /\ storageReqs = NoReqs
    /\ remoteFolders \in SUBSET Paths
    /\ probeResp = NoResp
    /\ putResp = NoResp
    /\ prevCall = NoCall
    /\ postResp = NoResp
    /\ href = <<>>
    /\ operation_id = <<>>
    /\ iter = 0
    /\ last_progress = 0
    /\ pbar = 0
    /\ lastStatus = "none"
    /\ sleeps = 0
    /\ exc = "none"
    /\ mainCtx = NoMain

InitSave ==
    /\ jsonFile = <<>>
    /\ firstWritten = <<>>
    /\ clock = 0
    /\ size_bytes = 0

Init ==
    /\ InitMain
    /\ InitSave
    /\ sizeResp = NoResp
    /\ text = <<>>
    /\ safe_filename = <<>>
    /\ spc = "off"

Next ==
    \/ CallCreateFolder
    \/ CfProbe
    \/ CfPut
    \/ CallUploadByUrl
    \/ UpPost
    \/ PollStep
    \/ CallRunBackup
    \/ RbResolve
    \/ RbStage2
    \/ MainText
    \/ MainToken

Spec == Init /\ [][Next]_vars

(***************************************************************************)
(* Specification of _sanitize_filename on its own: a caption is a short    *)
(* arbitrary prefix, optionally followed by a long run of one character.   *)
(***************************************************************************)

MaxPrefixLen == 2

Alphabet == {invalid_chars[i] : i \in 1..Len(invalid_chars)} \cup {"a", "_"}

Prefixes == UNION {[1..n -> Alphabet] : n \in 0..MaxPrefixLen}

PadChars == {"a", " "}

PadLens == {98, 99, 248}

InitSanitize ==
    /\ InitMain
    /\ InitSave
    /\ sizeResp = NoResp
    /\ remoteFolders = {}
    /\ text \in Prefixes
    /\ safe_filename = <<>>
    /\ spc = "input"

Pad ==
    /\ spc = "input"
    /\ \E c \in PadChars, n \in PadLens : text' = text \o Repeat(c, n)
    /\ spc' = "padded"
    /\ UNCHANGED <<safe_filename, mainVars, saveVars>>

\* line 278
Derive ==
    /\ spc \in {"input", "padded"}
    /\ safe_filename' = SafeFilename(text)
    /\ spc' = "derived"
    /\ UNCHANGED <<text, mainVars, saveVars>>

NextSanitize == Pad \/ Derive

SpecSanitize == InitSanitize /\ [][NextSanitize]_vars

(***************************************************************************)
(* BackupManager._get_remote_file_size and _save_to_json, called on a      *)
(* manager whose uploaded_files is filled as lines 286-295 fill it.  These  *)
(* lines and _save_to_json are not reached through run_backup (line 267),  *)
(* so they are exercised directly.                                         *)
(***************************************************************************)

MaxRecords == 2

MaxClock == 2

\* captions of the records
RecordCaptions == {<<"c", "a", "t">>, <<"h", "i", " ", "u">>}

\* self.netology_group
Group == "SPD-142"

SizeResp(k, h, n, len) == [kind |-> k, hasLength |-> h, numeric |-> n, length |-> len]

NoSizeResp == SizeResp("none", FALSE, FALSE, 0)

\* outcomes of requests.head(url): an exception, a response without
\* content-length, one with a number in it and one with anything else
SizeResponses ==
    {SizeResp("exc", FALSE, FALSE, 0), SizeResp("http", FALSE, FALSE, 0),
     SizeResp("http", TRUE, TRUE, 5), SizeResp("http", TRUE, FALSE, 0)}

\* variant: -1 stands for an unknown size
_get_remote_file_size_Negative(r) ==
    IF r.kind = "exc" THEN 0 - 1
    ELSE IF ~r.hasLength THEN 0 - 1
    ELSE IF ~r.numeric THEN 0 - 1
    ELSE r.length

\* lines 337-343; int() of a header that is not a number raises ValueError,
\* which the bare except turns into 0 as well
_get_remote_file_size(r) ==
    IF r.kind = "exc" THEN 0
    ELSE IF ~r.hasLength THEN 0
    ELSE IF ~r.numeric THEN 0
    ELSE r.length

\* lines 287-293
FileInfo(t, size) ==
    [filename |-> SafeFilename(t),
     size_bytes |-> size,
     text |-> t,
     download_url |-> ImageUrl(t),
     yandex_path |-> <<Group, "/">> \o SafeFilename(t)]

\* lines 353-361: backup_time is read from the clock when the entry is built
Entry(file_info, now) ==
    [filename |-> file_info.filename,
     size_bytes |-> file_info.size_bytes,
     text |-> file_info.text,
     download_url |-> file_info.download_url,
     yandex_path |-> file_info.yandex_path,
     backup_time |-> now,
     group_name |-> Group]

\* lines 351-361
Data(files, now) == [i \in 1..Len(files) |-> Entry(files[i], now)]

otherVars == <<pc, op, result, storageMode, filesAtEntry, jsonWrites, fsWritable,
               headResp, storageReqs, remoteFolders, probeResp, putResp, prevCall,
               postResp, href, operation_id, iter, last_progress, pbar, lastStatus,
               sleeps, exc, mainCtx, text, safe_filename, spc>>

\* lines 286-295: the size probe, the FileInfo and the append
Record ==
    /\ Len(uploaded_files) < MaxRecords
    /\ \E t \in RecordCaptions, r \in SizeResponses :
        /\ sizeResp' = r
        /\ size_bytes' = _get_remote_file_size(r)
        /\ uploaded_files' = Append(uploaded_files, FileInfo(t, _get_remote_file_size(r)))
    /\ UNCHANGED <<jsonFile, firstWritten, clock, otherVars>>

\* lines 345-372; open(json_filename, 'w') either raises IOError, which is
\* logged, or the whole list is written over the file
SaveToJson ==
    /\ \E writable \in BOOLEAN :
        IF uploaded_files = <<>> \/ ~writable
        THEN UNCHANGED <<jsonFile, firstWritten>>
        ELSE /\ jsonFile' = Data(uploaded_files, clock)
             /\ firstWritten' = firstWritten \o
                    SubSeq(Data(uploaded_files, clock), Len(firstWritten) + 1,
                           Len(uploaded_files))
    /\ UNCHANGED <<uploaded_files, clock, sizeResp, size_bytes, otherVars>>

\* a second passes
Tick ==
    /\ clock < MaxClock
    /\ clock' = clock + 1
    /\ UNCHANGED <<uploaded_files, jsonFile, firstWritten, sizeResp, size_bytes,
                   otherVars>>

InitSaving ==
    /\ InitMain
    /\ InitSave
    /\ sizeResp = NoSizeResp
    /\ remoteFolders = {}
    /\ text = <<>>
    /\ safe_filename = <<>>
    /\ spc = "off"

NextSave == Record \/ SaveToJson \/ Tick

SpecSave == InitSaving /\ [][NextSave]_vars

(***************************************************************************)
(* Properties                                                              *)
(***************************************************************************)

IsPrefix(a, b) == Len(a) <= Len(b) /\ SubSeq(b, 1, Len(a)) = a

RunReturned == pc = "done" /\ op.name = "run_backup"

Resolved == headResp.kind = "http" /\ headResp.code = 200

\* C1: when run_backup returns success uploaded_files has grown by exactly one
\* record, and when it returns failure uploaded_files is unchanged and the
\* JSON file was not written during the run.
C1_OneRecordPerSuccess ==
    RunReturned =>
        /\ result => /\ Len(uploaded_files) = Len(filesAtEntry) + 1
                     /\ IsPrefix(filesAtEntry, uploaded_files)
        /\ ~result => uploaded_files = filesAtEntry /\ jsonWrites = 0

\* a run that resolved the image and then returned failure
C1_Witness == RunReturned /\ Resolved /\ ~result /\ uploaded_files = filesAtEntry

\* C2: when the HEAD probe of the image source answers anything but 200, or
\* fails at transport level, run_backup returns failure with no record
\* appended, no JSON file written and no request issued to the storage API.
C2_ResolveFailureAborts ==
    (RunReturned /\ ~Resolved) =>
        /\ ~result
        /\ uploaded_files = filesAtEntry
        /\ jsonWrites = 0
        /\ storageReqs = NoReqs

\* a run whose probe was answered 404 has returned
C2_Witness == RunReturned /\ headResp.kind = "http" /\ headResp.code = 404

\* C3: a run in which image resolve, folder ensure and upload all succeed but
\* the JSON file cannot be written returns success.  The stages succeed when
\* the image source answers 200 and the storage API answers as documented.
C3_WriteFailureIsNotFatal ==
    (RunReturned /\ Resolved /\ storageMode = "faithful" /\ ~fsWritable) => result

UploadReturned == pc = "done" /\ op.name = "upload_by_url"

\* C4: the first status response 'success' makes the poll return success at
\* once, whatever progress was reported before or comes with the response:
\* it is the last request of the poll, and it is not followed by a sleep.
C4_SuccessEndsPoll ==
    (op.name = "upload_by_url" /\ lastStatus = "success") =>
        /\ pc = "done"
        /\ result
        /\ storageReqs.poll = iter
        /\ sleeps = storageReqs.poll - 1

\* success received on a later iteration while the progress last reported was
\* below 100
C4_Witness ==
    /\ UploadReturned /\ lastStatus = "success" /\ result
    /\ iter > 1 /\ last_progress < 100

NonTerminal == {"in-progress", "pending", "absent"}

\* C5: the poll issues at most 30 status requests; when the 30th answer is
\* still 'in-progress' or unrecognised (so were the 29 before it, or the poll
\* would have returned) the poll returns failure, and a poll that returns on
\* such an answer has issued exactly 30 requests.
C5_PollCeiling ==
    /\ storageReqs.poll <= 30
    /\ pc = "poll" => storageReqs.poll < 30
    /\ (storageReqs.poll = 30 /\ lastStatus \in NonTerminal) => (pc = "done" /\ ~result)
    /\ (UploadReturned /\ lastStatus \in NonTerminal) => (storageReqs.poll = 30 /\ sleeps = 30)

\* the poll timed out
C5_Witness ==
    UploadReturned /\ storageReqs.poll = 30 /\ lastStatus = "in-progress" /\ ~result

FolderReturned == pc = "done" /\ op.name = "create_folder"

\* the call that just returned and the one before it are calls of
\* create_folder with the same path against the faithful remote
TwoSameCalls ==
    /\ FolderReturned /\ storageMode = "faithful"
    /\ prevCall.name = "create_folder" /\ prevCall.arg = op.arg
    /\ prevCall.mode = "faithful"

\* C6: create_folder is idempotent against a remote that remembers the
\* folders it created: two consecutive calls with the same path both return
\* success and issue at most one PUT together, and a call whose probe is
\* answered 200 issues no PUT.
C6_FolderIdempotent ==
    /\ (FolderReturned /\ probeResp.kind = "http" /\ probeResp.code = 200)
           => storageReqs.put = 0
    /\ TwoSameCalls => /\ result /\ prevCall.result
                       /\ prevCall.puts + storageReqs.put <= 1

\* the first of two calls created the folder, the second found it
C6_Witness == TwoSameCalls /\ prevCall.puts = 1 /\ storageReqs.put = 0 /\ result

\* C7: create_folder returns success without a PUT when the probe answers
\* 200; otherwise it issues exactly one PUT and returns success on 201 or 409
\* and failure on any other status; a transport failure of either request
\* makes it return failure.
C7_FolderClassification ==
    FolderReturned =>
        IF probeResp.kind = "exc" THEN ~result /\ storageReqs.put = 0
        ELSE IF probeResp.code = 200 THEN result /\ storageReqs.put = 0
        ELSE /\ storageReqs.put = 1
             /\ storageReqs.get = 1
             /\ IF putResp.kind = "exc" THEN ~result
                ELSE result <=> putResp.code \in {201, 409}

\* the create request was answered 409
C7_Witness ==
    FolderReturned /\ putResp.kind = "http" /\ putResp.code = 409 /\ result

Initiated ==
    /\ op.name = "upload_by_url" /\ pc \in {"poll", "done"}
    /\ postResp.kind = "http" /\ ~RaisesForStatus(postResp) /\ postResp.json

\* the marker 'operation_id=' stands at position i of h
MarkerAt(h, i) ==
    /\ i + 12 <= Len(h)
    /\ SubSeq(h, i, i + 12) = <<"o", "p", "e", "r", "a", "t", "i", "o", "n", "_", "i", "d", "=">>

\* an identifier follows the marker in h
IdentifierAfterMarker(h) == \E i \in 1..Len(h) : MarkerAt(h, i) /\ i + 12 < Len(h)

\* C8: after a successful upload-initiation response, when href does not
\* contain the marker 'operation_id=' (href absent or empty included)
\* upload_by_url returns success without a status poll, and a status poll is
\* issued only when an identifier following the marker was found.
C8_NoMarkerNoPoll ==
    Initiated =>
        /\ (\A i \in 1..Len(href) : ~MarkerAt(href, i))
               => (pc = "done" /\ result /\ storageReqs.poll = 0)
        /\ (pc = "poll" \/ storageReqs.poll > 0) => IdentifierAfterMarker(href)

Forbidden == {"<", ">", ":", "\"", "/", "\\", "|", "?", "*", " "}

Derived == spc = "derived"

\* C9: the file name derived from any caption contains none of the
\* characters < > : " / \ | ? * or space, and ends with '.jpg'.
C9_NameIsSafe ==
    Derived =>
        /\ \A i \in 1..Len(safe_filename) : safe_filename[i] \notin Forbidden
        /\ Len(safe_filename) >= 4
        /\ SubSeq(safe_filename, Len(safe_filename) - 3, Len(safe_filename))
               = <<".", "j", "p", "g">>

\* a caption with a forbidden character among its first 100 was derived
C9_Witness ==
    /\ Derived
    /\ \E i \in 1..Len(text) : i <= 100 /\ text[i] \in Forbidden

Clean(t) == \A i \in 1..Len(t) : t[i] \notin Forbidden

\* C10: for a caption of at most 100 characters with no forbidden character
\* and no space, the derived name without its extension is the caption.
C10_CleanCaptionUnchanged ==
    (Derived /\ Len(text) <= 100 /\ Clean(text)) =>
        SubSeq(safe_filename, 1, Len(safe_filename) - 4) = text

\* a clean caption of exactly 100 characters was derived
C10_Witness == Derived /\ Len(text) = 100 /\ Clean(text)


\* the caption with every forbidden character and space replaced by '_'
Substituted(t) == [i \in 1..Len(t) |-> IF t[i] \in Forbidden THEN "_" ELSE t[i]]

PreExtension == SubSeq(safe_filename, 1, Len(safe_filename) - 4)

\* C11: the derived name without its extension has length
\* min(len(caption), 100) and is the first 100 characters of the substituted
\* caption; a caption of length 250 gives a name of length exactly 100, and
\* the final name exceeds 100 by at most the length of '.jpg'.
C11_TruncatedAfterSubstitution ==
    Derived =>
        /\ Len(PreExtension) = (IF Len(text) < 100 THEN Len(text) ELSE 100)
        /\ \A i \in 1..Len(PreExtension) : PreExtension[i] = Substituted(text)[i]
        /\ Len(text) = 250 => Len(PreExtension) = 100
        /\ Len(safe_filename) <= 100 + 4

\* a caption of length 250 with a forbidden character was derived
C11_Witness ==
    /\ Derived /\ Len(text) = 250
    /\ \E i \in 1..100 : text[i] \in Forbidden


\* the outcome of the stages of a run, read from the requests it issued
FolderOk ==
    /\ storageReqs.get >= 1
    /\ \/ probeResp.kind = "http" /\ probeResp.code = 200
       \/ putResp.kind = "http" /\ putResp.code \in {201, 409}

UploadOk ==
    /\ storageReqs.post >= 1
    /\ postResp.kind = "http" /\ postResp.code < 400 /\ postResp.json
    /\ storageReqs.poll = 0 \/ lastStatus = "success"

\* C12: a run whose image resolve succeeded goes on to ensure-folder: the
\* existence probe GET /resources is issued before the run returns, and such
\* a run fails at stage 2 only when ensure-folder reported failure.
C12_ResolvedRunProbesFolder ==
    (RunReturned /\ Resolved) =>
        /\ storageReqs.get >= 1
        /\ (~result /\ storageReqs.post = 0) => ~FolderOk

\* C13: run_backup runs resolve, ensure-folder, upload, size probe, append
\* and JSON write in this order and stops at the first failure: no POST
\* unless ensure-folder succeeded, no append and no JSON write unless the
\* upload succeeded, and a run that returns failure has had a stage fail.
C13_StagesInOrder ==
    RunReturned =>
        /\ storageReqs.get >= 1 => Resolved
        /\ storageReqs.post >= 1 => FolderOk
        /\ (Len(uploaded_files) > Len(filesAtEntry) \/ jsonWrites > 0) => UploadOk
        /\ ~result => \/ ~Resolved
                      \/ storageReqs.get >= 1 /\ ~FolderOk
                      \/ storageReqs.post >= 1 /\ ~UploadOk


\* C14: the first status response 'failed' makes the poll, and with it
\* upload_by_url, return failure on that iteration: it is the last request of
\* the poll whatever number of iterations remain, and no sleep follows it.
C14_FailedEndsPoll ==
    (op.name = "upload_by_url" /\ lastStatus = "failed") =>
        /\ pc = "done"
        /\ ~result
        /\ storageReqs.poll = iter
        /\ sleeps = storageReqs.poll - 1

\* 'failed' received on the second iteration, 28 iterations before the ceiling
C14_Witness ==
    UploadReturned /\ lastStatus = "failed" /\ ~result /\ storageReqs.poll = 2

\* C15: progress is reported by difference from the last known value: after
\* every iteration the cumulative progress reported equals the progress of
\* the most recent 'in-progress' response (0 when there was none), a response
\* with an unrecognised status leaves it unchanged, and it is exactly 100 when
\* the poll returns success.
C15_ProgressByDelta ==
    /\ [](op.name = "upload_by_url" =>
            IF lastStatus = "success" THEN pbar = 100 ELSE pbar = last_progress)
    /\ [][(pc = "poll" /\ lastStatus' \in {"pending", "absent"}) => pbar' = pbar]_vars
    /\ [][(pc = "poll" /\ lastStatus' = "in-progress") =>
            (\E p \in {0, 40, 100} : pbar' = p /\ last_progress' = p)]_vars

\* the poll succeeded on a later iteration when 40 was the progress last reported
C15_Witness ==
    UploadReturned /\ lastStatus = "success" /\ pbar = 100
        /\ last_progress = 40 /\ storageReqs.poll >= 2


\* C16: run_backup never propagates an exception: an exception raised at any
\* stage is turned into a failure return, and then no record of this run
\* remains in uploaded_files.
C16_ExceptionsBecomeFailure ==
    /\ pc # "propagated"
    /\ (RunReturned /\ exc # "none") => (~result /\ uploaded_files = filesAtEntry)

\* the NameError of line 267 was raised and the run returned
C16_Witness == RunReturned /\ exc = "NameError" /\ ~result


\* C17: a record does not change once created: in every file written by the
\* manager each record appears, in append order, with the fields (timestamp
\* included) that were written for it the first time, and the file holds the
\* whole sequence as it was when written.
C17_RecordsImmutable ==
    /\ Len(jsonFile) <= Len(uploaded_files)
    /\ \A i \in 1..Len(jsonFile) :
        /\ jsonFile[i] = firstWritten[i]
        /\ jsonFile[i].filename = uploaded_files[i].filename
        /\ jsonFile[i].text = uploaded_files[i].text

\* C18: the size probe is not fatal: when the HEAD request raises or the
\* response has no content-length the record is still appended, with size 0.
C18_SizeProbeNotFatal ==
    (sizeResp.kind = "exc" \/ (sizeResp.kind = "http" /\ ~sizeResp.hasLength)) =>
        /\ size_bytes = 0
        /\ Len(uploaded_files) >= 1
        /\ uploaded_files[Len(uploaded_files)].size_bytes = 0

\* a record was appended after a size probe that raised
C18_Witness ==
    /\ sizeResp.kind = "exc" /\ Len(uploaded_files) = 2
    /\ uploaded_files[2].size_bytes = 0 /\ uploaded_files[1].size_bytes = 5


\* C19: a failed network call is not retried: a status request that fails at
\* transport level or is answered with an error status makes the poll return
\* failure on that iteration with no further status request, and an error
\* status on the upload request makes upload_by_url return failure with no
\* status poll at all.
C19_NoRetry ==
    op.name = "upload_by_url" =>
        /\ lastStatus \in {"exc", "http_error"} =>
               /\ pc = "done" /\ ~result
               /\ storageReqs.poll = iter
               /\ sleeps = storageReqs.poll - 1
        /\ (postResp.kind = "http" /\ postResp.code >= 400) =>
               (pc = "done" /\ ~result /\ storageReqs.poll = 0 /\ storageReqs.post = 1)

\* the third status request was answered with an error status
C19_Witness ==
    UploadReturned /\ lastStatus = "http_error" /\ storageReqs.poll = 3 /\ ~result


Blank(s) == \A i \in 1..Len(s) : s[i] \in {" ", "\t"}

\* s is not empty and neither starts nor ends with white space
Stripped(s) == s # <<>> /\ s[1] \notin {" ", "\t"} /\ s[Len(s)] \notin {" ", "\t"}

\* C20: main calls run_backup only with a caption and a token that are not
\* empty once stripped; when either input is empty main returns without
\* building a BackupManager, issuing a request or creating a record or a
\* JSON file.
C20_MainValidatesInputs ==
    /\ mainCtx.manager =>
           /\ ~Blank(mainCtx.rawText) /\ ~Blank(mainCtx.rawToken)
           /\ op.name = "run_backup" /\ op.arg = mainCtx.text
           /\ Stripped(mainCtx.text) /\ Stripped(mainCtx.token)
    /\ ((mainCtx.asked >= 1 /\ Blank(mainCtx.rawText))
            \/ (mainCtx.asked = 2 /\ Blank(mainCtx.rawToken))) =>
           /\ pc = "done" /\ op.name = "main"
           /\ ~mainCtx.manager
           /\ headResp = NoResp /\ storageReqs = NoReqs
           /\ uploaded_files = <<>> /\ jsonWrites = 0
    /\ (mainCtx.asked >= 1 /\ Blank(mainCtx.rawText)) => mainCtx.asked = 1

\* main returned on a token made of white space only
C20_Witness ==
    /\ pc = "done" /\ op.name = "main" /\ mainCtx.asked = 2
    /\ mainCtx.rawToken # <<>> /\ Blank(mainCtx.rawToken)

====
